---- MODULE Spec2Model ----
(***************************************************************************)
(* Model of src/main.py: one run of main(), which scans the recent-projects *)
(* records of every IDE kind and writes the Toolbox projects cache.         *)
(*                                                                          *)
(* The environment, the launcher state file and the vendor roots are fixed  *)
(* when the run starts.  The directory listings and the record files are    *)
(* each read once by the run; the model draws them when the code reads them *)
(* and keeps what was read in the history variable `seen`.  A glob only     *)
(* returns the names with its own prefix, so the listings drawn for the     *)
(* kinds that share a root always describe one directory.                   *)
(***************************************************************************)
EXTENDS Integers, Sequences, FiniteSets, TLC

\* ------------------------------------------------------------------ bounds
\* size of the disk content one run reads: the installation folders its globs
\* match plus the entries of the record files it parses
MaxDisk == 4

\* ------------------------------------------------------------ IDE registry
None == "None"

Ide ==
  [ PHPSTORM       |-> [tool_id |-> "PhpStorm",      folder_prefix |-> "PhpStorm"],
    RIDER          |-> [tool_id |-> "Rider",         folder_prefix |-> "Rider"],
    INTELLIJ_IDEA  |-> [tool_id |-> "IDEA-U",        folder_prefix |-> "IntelliJIdea"],
    ANDROID_STUDIO |-> [tool_id |-> "AndroidStudio", folder_prefix |-> "AndroidStudio"] ]

\* iteration order of `for ide in Ide`
IdeOrder == <<"PHPSTORM", "RIDER", "INTELLIJ_IDEA", "ANDROID_STUDIO">>

Kinds == DOMAIN Ide

KindIndex(k) == CHOOSE i \in 1..Len(IdeOrder) : IdeOrder[i] = k

\* ------------------------------------------------------- the machine's disk
EnvVars == {"APPDATA", "LOCALAPPDATA"}

VendorRoots == {"JetBrains", "Google"}

\* a path is the sequence of its segments
Placeholder == "$USER_HOME$"
Home == <<"home", "u">>

\* keys found in recentProjects.xml; two of them resolve to the same directory
Keys ==
  { <<Placeholder, "a">>, <<"home", "u", "a">>, <<"home", "u", "b">>,
    <<"home", "u", "gone">> }

\* project directories that exist
ExistingDirs == { <<"home", "u", "a">>, <<"home", "u", "b">> }

\* project directories holding .idea/.name, with its text
NameFiles == [ p \in { <<"home", "u", "a">> } |-> "Alpha" ]

\* sub-directories a vendor root may hold, each given by the product name its
\* directory name starts with (the version suffix that follows is left out)
DirNames(root) ==
  IF root = "Google"
    THEN {"AndroidStudio", "PhpStorm"}
    ELSE {"PhpStorm", "Rider", "IntelliJIdea", "phpstorm"}

\* launcher state files: absent, or a list of tool records
Tool(t, c) == [toolId |-> t, channelId |-> c]
NoTool == Tool("", "")

StateFiles ==
  { [exists |-> FALSE, tools |-> <<>>],
    [exists |-> TRUE,
     tools |-> << Tool("PhpStorm", "ch-php"), Tool("Rider", "ch-rider"),
                  Tool("IDEA-U", "ch-idea"), Tool("AndroidStudio", "ch-as") >>],
    [exists |-> TRUE,
     tools |-> << Tool("AndroidStudio", "ch-as-eap"), Tool("Fleet", "ch-fleet"),
                  Tool("PhpStorm", "ch-php"), Tool("AndroidStudio", "ch-as") >>] }

\* content of the cache file before the run
OldCache == << [stale |-> TRUE] >>

\* ------------------------------------------------------------ small helpers
SeqsUpTo(S, n) == UNION { [1..m -> S] : m \in 0..n }

Last(s) == s[Len(s)]

RECURSIVE SumLen(_)
SumLen(ss) == IF ss = <<>> THEN 0 ELSE Len(Head(ss).entries) + SumLen(Tail(ss))

\* ------------------------------------------------------------- environment
\* getenv(key) with no default: the value is present, or EnvironmentError
getenv(env, key) == key \in env

\* ------------------------------------------------------------ IDE registry
\* toolbox_state without the exists() check: a missing file reads as no tools
toolbox_state_Unchecked(env, sf, ide) ==
  IF "LOCALAPPDATA" \notin env
    THEN [err |-> "EnvironmentError", found |-> FALSE, tool |-> NoTool]
  ELSE LET hits == { i \in 1..Len(sf.tools) : sf.tools[i].toolId = ide }
       IN  IF hits = {}
             THEN [err |-> "", found |-> FALSE, tool |-> NoTool]
             ELSE [err |-> "", found |-> TRUE,
                   tool |-> sf.tools[CHOOSE i \in hits : \A j \in hits : i <= j]]

\* toolbox_state(ide) for a tool id: the first tool record with that toolId
toolbox_state(env, sf, ide) ==
  IF ~getenv(env, "LOCALAPPDATA")
    THEN [err |-> "EnvironmentError", found |-> FALSE, tool |-> NoTool]
  ELSE IF ~sf.exists
    THEN [err |-> "FileNotFoundError", found |-> FALSE, tool |-> NoTool]
  ELSE LET hits == { i \in 1..Len(sf.tools) : sf.tools[i].toolId = ide }
       IN  IF hits = {}
             THEN [err |-> "", found |-> FALSE, tool |-> NoTool]
             ELSE [err |-> "", found |-> TRUE,
                   tool |-> sf.tools[CHOOSE i \in hits : \A j \in hits : i <= j]]

\* a channel_id that never finds its memo set
NeverMemoized(c) == FALSE

\* `self._channel_id is None` negated: a channel id is already memoized
Memoized(c) == c # None

\* channel_id that returns the missing tool's channel instead of raising
channel_id_NoRaise(c, env, sf, tool_id) ==
  IF c # None
    THEN [err |-> "", value |-> c, memo |-> c, calls |-> 0]
  ELSE LET t == toolbox_state(env, sf, tool_id)
       IN  IF t.err # ""
             THEN [err |-> t.err, value |-> None, memo |-> c, calls |-> 1]
           ELSE IF ~t.found
             THEN [err |-> "", value |-> None, memo |-> None, calls |-> 1]
           ELSE [err |-> "", value |-> t.tool.channelId,
                 memo |-> t.tool.channelId, calls |-> 1]

\* IdeInfo.channel_id(): the value returned, the new _channel_id, the number
\* of toolbox_state() calls made, and the error raised ("" for none)
channel_id(c, env, sf, tool_id) ==
  IF Memoized(c)
    THEN [err |-> "", value |-> c, memo |-> c, calls |-> 0]
  ELSE LET t == toolbox_state(env, sf, tool_id)
       IN  IF t.err # ""
             THEN [err |-> t.err, value |-> None, memo |-> c, calls |-> 1]
           ELSE IF ~t.found
             THEN [err |-> "RuntimeError", value |-> None, memo |-> c, calls |-> 1]
           ELSE [err |-> "", value |-> t.tool.channelId,
                 memo |-> t.tool.channelId, calls |-> 1]

\* ------------------------------------------------------------------ records
NewOpenItem(tool_id, channel_id_) == [tool_id |-> tool_id, channel_id |-> channel_id_]

NewOpenItem_to_json(item) == [toolId |-> item.tool_id, channelId |-> item.channel_id]

\* a Project whose default action is the tool id of its first open action
Project_DefaultToolId(name, path, new_open_items) ==
  [ name |-> name,
    path |-> path,
    default_new_open_item |-> new_open_items[1].tool_id,
    new_open_items |-> new_open_items ]

Project(name, path, new_open_items) ==
  [ name |-> name,
    path |-> path,
    default_new_open_item |-> new_open_items[1].channel_id,
    new_open_items |-> new_open_items ]

Project_to_json(p) ==
  [ name |-> p.name,
    path |-> p.path,
    defaultNewOpenItem |-> p.default_new_open_item,
    newOpenItems |-> [ i \in 1..Len(p.new_open_items) |->
                         NewOpenItem_to_json(p.new_open_items[i]) ] ]

\* ------------------------------------------------------------------ scanner
\* the vendor folder under APPDATA that holds the kind's installations
VendorRoot(ide) == IF ide = "ANDROID_STUDIO" THEN "Google" ELSE "JetBrains"

RECURSIVE Glob(_, _)
\* folder.glob(prefix + '*/', case_sensitive=True) over a directory listing
Glob(listing, prefix) ==
  IF listing = <<>> THEN <<>>
  ELSE (IF Head(listing) = prefix THEN <<Head(listing)>> ELSE <<>>)
         \o Glob(Tail(listing), prefix)

\* no is_file() check: every record file is handed to the parser
IsFile_Always(rec) == TRUE

\* recent_projects_path.is_file()
IsFile(rec) == rec.status # "absent"

\* ET.parse succeeds on the record file
Parses(rec) == rec.status = "ok"

RECURSIVE ResolveKey(_)
\* key.replace('$USER_HOME$', str(Path.home()))
ResolveKey(key) ==
  IF key = <<>> THEN <<>>
  ELSE (IF Head(key) = Placeholder THEN Home ELSE <<Head(key)>>)
         \o ResolveKey(Tail(key))

\* no is_dir() check: stale entries are kept
IsDir_Always(path) == TRUE

\* path.is_dir()
IsDir(path) == path \in ExistingDirs

\* the display name: the text of .idea/.name, else the last path segment
DisplayName(path) ==
  IF path \in DOMAIN NameFiles THEN NameFiles[path] ELSE Last(path)

\* a dict that keeps the first project stored under a path
DictSet_KeepFirst(d, project) ==
  IF \E i \in 1..Len(d) : d[i].path = project.path THEN d ELSE Append(d, project)

\* a dict that moves a path stored again to the end
DictSet_MoveToEnd(d, project) ==
  Append(SelectSeq(d, LAMBDA q : q.path # project.path), project)

\* unique_project[project.path] = project, on an insertion-ordered dict
DictSet(d, project) ==
  IF \E i \in 1..Len(d) : d[i].path = project.path
    THEN [ i \in 1..Len(d) |-> IF d[i].path = project.path THEN project ELSE d[i] ]
    ELSE Append(d, project)

RECURSIVE MergeAll(_, _)
\* for project in get_recent_projects(...): unique_project[project.path] = project
MergeAll(d, list) ==
  IF list = <<>> THEN d ELSE MergeAll(DictSet(d, Head(list)), Tail(list))

\* an extend that skips the paths the result list already holds
Extend_SkipKnownPaths(list, d) ==
  list \o SelectSeq(d, LAMBDA q : \A i \in 1..Len(list) : list[i].path # q.path)

\* projects.extend(unique_project.values())
Extend(list, d) == list \o d

\* json.dumps([item.to_json() for item in projects])
Dumps(list) == [ i \in 1..Len(list) |-> Project_to_json(list[i]) ]

\* what a record file may be: absent, unparsable, or a list of entry keys
Records(n) ==
  { [status |-> "absent", entries |-> <<>>], [status |-> "malformed", entries |-> <<>>] }
    \cup { [status |-> "ok", entries |-> e] : e \in SeqsUpTo(Keys, n) }

\* what a vendor root may list, in the order the OS reports it
Listings(root, n) == SeqsUpTo(DirNames(root), n)

\* -------------------------------------------------------------------- state
VARIABLES
  env,              \* the environment variables that are set
  stateFile,        \* the launcher's state.json
  roots,            \* the vendor roots that exist under APPDATA
  cache,            \* content of cache/intellij_projects.json
  writes,           \* number of writes to the cache file
  pc,               \* where main() is: paths, folder, entry, write, done, failed
  err,              \* the exception that ended the run
  ki,               \* position of the current kind in IdeOrder (past it after the loop)
  folders,          \* installation folders of the kind still to open
  entries,          \* entries of the open record still to process
  recent_projects,  \* the list get_recent_projects is building
  unique_project,   \* main's per-kind dict, in insertion order
  projects,         \* main's result list
  memo,             \* _channel_id of each IdeInfo
  calls,            \* toolbox_state() calls made by channel_id(), per kind
  seen              \* the record files opened so far, with what they held

vars == << env, stateFile, roots, cache, writes, pc, err, ki, folders, entries,
           recent_projects, unique_project, projects, memo, calls, seen >>

disk == << env, stateFile, roots >>

ide == IdeOrder[ki]

\* how much of the disk content the run has read so far
Used == Len(seen) + Len(folders) + SumLen(seen)

Init ==
  /\ env \in SUBSET EnvVars
  /\ stateFile \in StateFiles
  /\ roots \in SUBSET VendorRoots
  /\ cache = OldCache
  /\ writes = 0
  /\ pc = "paths"
  /\ err = ""
  /\ ki = 1
  /\ folders = <<>>
  /\ entries = <<>>
  /\ recent_projects = <<>>
  /\ unique_project = <<>>
  /\ projects = <<>>
  /\ memo = [k \in Kinds |-> None]
  /\ calls = [k \in Kinds |-> 0]
  /\ seen = <<>>

\* an uncaught exception ends the process
Raise(e) == pc' = "failed" /\ err' = e

\* main, lines 166-169: the next kind's dict is created and its folders listed
IdeDataPaths ==
  /\ pc = "paths"
  /\ unique_project' = <<>>
  /\ UNCHANGED << disk, cache, writes, ki, entries, recent_projects, projects,
                  memo, calls, seen >>
  /\ \/ /\ ~getenv(env, "APPDATA")
        /\ Raise("EnvironmentError")
        /\ UNCHANGED folders
     \/ /\ getenv(env, "APPDATA")
        /\ VendorRoot(ide) \notin roots
        /\ folders' = <<>>
        /\ pc' = "folder"
        /\ UNCHANGED err
     \/ /\ getenv(env, "APPDATA")
        /\ VendorRoot(ide) \in roots
        /\ \E listing \in Listings(VendorRoot(ide), MaxDisk - Used) :
             folders' = Glob(listing, Ide[ide].folder_prefix)
        /\ pc' = "folder"
        /\ UNCHANGED err

\* get_recent_projects, lines 126-136: the record file of the next folder
GetRecentProjects ==
  /\ pc = "folder"
  /\ folders # <<>>
  /\ \E rec \in Records(MaxDisk - Used) :
       /\ seen' = Append(seen, [kind |-> ide,
                                status |-> rec.status, entries |-> rec.entries])
       /\ \/ /\ ~IsFile(rec)
             /\ folders' = Tail(folders)
             /\ UNCHANGED << pc, err, entries >>
          \/ /\ IsFile(rec)
             /\ ~Parses(rec)
             /\ Raise("ParseError")
             /\ UNCHANGED << folders, entries >>
          \/ /\ IsFile(rec)
             /\ Parses(rec)
             /\ entries' = rec.entries
             /\ pc' = "entry"
             /\ UNCHANGED << folders, err >>
  /\ recent_projects' = <<>>
  /\ UNCHANGED << disk, cache, writes, ki, unique_project, projects, memo, calls >>

\* get_recent_projects, lines 137-155: one entry of the record
ProcessEntry ==
  /\ pc = "entry"
  /\ entries # <<>>
  /\ entries' = Tail(entries)
  /\ UNCHANGED << disk, cache, writes, ki, folders, unique_project, projects, seen >>
  /\ LET path == ResolveKey(Head(entries))
         idx  == Len(Last(seen).entries) - Len(entries) + 1
     IN  \/ /\ ~IsDir(path)
            /\ UNCHANGED << pc, err, recent_projects, memo, calls >>
         \/ /\ IsDir(path)
            /\ LET name == DisplayName(path)
                   c    == channel_id(memo[ide], env, stateFile, Ide[ide].tool_id)
               IN  /\ memo' = [memo EXCEPT ![ide] = c.memo]
                   /\ calls' = [calls EXCEPT ![ide] = @ + c.calls]
                   /\ \/ /\ c.err # ""
                         /\ Raise(c.err)
                         /\ UNCHANGED recent_projects
                      \/ /\ c.err = ""
                         /\ recent_projects' =
                              Append(recent_projects,
                                     Project(name, path,
                                             <<NewOpenItem(Ide[ide].tool_id, c.value)>>)
                                       @@ [id |-> <<Len(seen), idx>>])
                         /\ UNCHANGED << pc, err >>

\* main, lines 170-171: the returned list is merged into the kind's dict
MergeFolder ==
  /\ pc = "entry"
  /\ entries = <<>>
  /\ unique_project' = MergeAll(unique_project, recent_projects)
  /\ recent_projects' = <<>>
  /\ folders' = Tail(folders)
  /\ pc' = "folder"
  /\ UNCHANGED << disk, cache, writes, err, ki, entries, projects, memo, calls, seen >>

\* main writing the cache after each kind rather than once at the end
ExtendProjects_WriteEach ==
  /\ pc = "folder"
  /\ folders = <<>>
  /\ projects' = Extend(projects, unique_project)
  /\ cache' = Dumps(projects')
  /\ writes' = writes + 1
  /\ ki' = ki + 1
  /\ pc' = IF ki = Len(IdeOrder) THEN "write" ELSE "paths"
  /\ UNCHANGED << disk, err, folders, entries, recent_projects,
                  unique_project, memo, calls, seen >>

\* main, line 173: the kind's projects join the result list
ExtendProjects ==
  /\ pc = "folder"
  /\ folders = <<>>
  /\ projects' = Extend(projects, unique_project)
  /\ ki' = ki + 1
  /\ pc' = IF ki = Len(IdeOrder) THEN "write" ELSE "paths"
  /\ UNCHANGED << disk, cache, writes, err, folders, entries, recent_projects,
                  unique_project, memo, calls, seen >>

\* main, lines 175-177: the cache file is overwritten
WriteCache ==
  /\ pc = "write"
  /\ UNCHANGED << disk, ki, folders, entries, recent_projects, unique_project,
                  projects, memo, calls, seen >>
  /\ \/ /\ ~getenv(env, "LOCALAPPDATA")
        /\ Raise("EnvironmentError")
        /\ UNCHANGED << cache, writes >>
     \/ /\ getenv(env, "LOCALAPPDATA")
        /\ cache' = Dumps(projects)
        /\ writes' = writes + 1
        /\ pc' = "done"
        /\ UNCHANGED err

Next ==
  \/ IdeDataPaths
  \/ GetRecentProjects
  \/ ProcessEntry
  \/ MergeFolder
  \/ ExtendProjects
  \/ WriteCache

Spec == Init /\ [][Next]_vars

\* ------------------------------------------------- what the run has read
\* the directory an entry key denotes
Denotes(key) == IF key[1] = Placeholder THEN Home \o Tail(key) ELSE key

\* how many entries of the j-th opened record the loop has gone through
Processed(j) ==
  IF j = Len(seen) THEN Len(seen[j].entries) - Len(entries) ELSE Len(seen[j].entries)

RECURSIVE OccFrom(_, _)
\* the processed entries that denote an existing directory, in processing
\* order, from entry i of record j on
OccFrom(j, i) ==
  IF j > Len(seen) THEN <<>>
  ELSE IF i > Processed(j) THEN OccFrom(j + 1, 1)
  ELSE (IF Denotes(seen[j].entries[i]) \in ExistingDirs
          THEN << [kind |-> seen[j].kind, path |-> Denotes(seen[j].entries[i]),
                   id |-> <<j, i>>] >>
          ELSE <<>>)
         \o OccFrom(j, i + 1)

\* whether some processed entry of kind k denotes an existing directory
HasValid(k) ==
  \E j \in 1..Len(seen) :
    /\ seen[j].kind = k
    /\ \E i \in 1..Processed(j) : Denotes(seen[j].entries[i]) \in ExistingDirs

KindOcc(k) == SelectSeq(OccFrom(1, 1), LAMBDA o : o.kind = k)

\* the existing directories the processed entries of kind k denote
OccPaths(k) ==
  { p \in ExistingDirs :
      \E j \in 1..Len(seen) :
        /\ seen[j].kind = k
        /\ \E i \in 1..Processed(j) : Denotes(seen[j].entries[i]) = p }

RECURSIVE Firsts(_, _)
\* the paths of occ in order of first occurrence
Firsts(occ, had) ==
  IF occ = <<>> THEN <<>>
  ELSE IF Head(occ).path \in had THEN Firsts(Tail(occ), had)
  ELSE <<Head(occ).path>> \o Firsts(Tail(occ), had \cup {Head(occ).path})

Registered(k) == \E i \in 1..Len(stateFile.tools) : stateFile.tools[i].toolId = Ide[k].tool_id

\* every Project object the run holds
Held ==
  { recent_projects[i] : i \in 1..Len(recent_projects) }
    \cup { unique_project[i] : i \in 1..Len(unique_project) }
    \cup { projects[i] : i \in 1..Len(projects) }

OfKind(p, k) == p.new_open_items[1].tool_id = Ide[k].tool_id

\* ----------------------------------------------------------------- claims

\* C1 as stated: when the launcher state file is missing, the run never
\* writes the cache file, whatever the disk holds.
C1_AsStated == ~stateFile.exists => cache = OldCache

\* C1 as amended: when the launcher state file is missing, no channel
\* lookup succeeds; the first entry that denotes an existing directory
\* aborts the run before the cache is written (with "state file not found"
\* when LOCALAPPDATA is set), and a run that completes has met no such
\* entry, has not called toolbox_state and has written the empty list.
C1_MissingStateFile ==
  ~stateFile.exists =>
    /\ Held = {}
    /\ \A k \in Kinds : memo[k] = None
    /\ (\E k \in Kinds : HasValid(k)) =>
         /\ pc = "failed"
         /\ cache = OldCache
         /\ writes = 0
         /\ err = IF "LOCALAPPDATA" \in env THEN "FileNotFoundError" ELSE "EnvironmentError"
    /\ err = "FileNotFoundError" => HasValid(ide)
    /\ pc = "done" =>
         /\ \A k \in Kinds : calls[k] = 0
         /\ cache = <<>>

C1_Witness ==
  /\ ~stateFile.exists
  /\ pc = "failed"
  /\ err = "FileNotFoundError"
  /\ Len(seen) = 2

C3_LastWriteWins ==
  pc = "done" =>
    \A k \in Kinds : \A path \in OccPaths(k) :
      LET occ  == KindOcc(k)
          at   == { i \in 1..Len(occ) : occ[i].path = path }
          last == CHOOSE i \in at : \A j \in at : j <= i
          recs == { n \in 1..Len(projects) :
                      projects[n].path = path /\ OfKind(projects[n], k) }
      IN  /\ Cardinality(recs) = 1
          /\ \A n \in recs : projects[n].id = occ[last].id
          /\ \A n \in recs : cache[n] = Project_to_json(projects[n])

C3_Witness ==
  /\ pc = "done"
  /\ \E k \in Kinds :
       \E i, j \in 1..Len(KindOcc(k)) :
         /\ KindOcc(k)[i].path = KindOcc(k)[j].path
         /\ KindOcc(k)[i].id[1] < KindOcc(k)[j].id[1]

\* C4: a path listed by several kinds has one record per listing kind in the
\* written cache (two records for two kinds), each with exactly one open
\* action, whose toolId is the tool key of the kind that contributed it.
C4_NoCrossKindMerge ==
  pc = "done" =>
    \A path \in ExistingDirs :
      LET listing == { k \in Kinds : path \in OccPaths(k) }
          recs    == { n \in 1..Len(cache) : cache[n].path = path }
      IN  /\ Cardinality(recs) = Cardinality(listing)
          /\ \A n \in recs : Len(cache[n].newOpenItems) = 1
          /\ \A k \in listing :
               Cardinality({ n \in recs :
                               cache[n].newOpenItems[1].toolId = Ide[k].tool_id }) = 1
          /\ \A n, m \in recs : n # m => cache[n].newOpenItems # cache[m].newOpenItems

C4_Witness ==
  /\ pc = "done"
  /\ \E path \in ExistingDirs :
       Cardinality({ k \in Kinds : path \in OccPaths(k) }) = 2

\* C5: no project is ever built for an entry whose resolved path is not an
\* existing directory and none reaches the cache; a kind contributes exactly
\* as many records as its entries denote distinct existing directories; and a
\* kind none of whose processed entries is valid has made no channel lookup.
C5_StaleEntriesSkipped ==
  /\ \A p \in Held : p.path \in ExistingDirs
  /\ \A k \in Kinds : (calls[k] # 0 \/ memo[k] # None) => HasValid(k)
  /\ pc = "done" =>
       /\ \A n \in 1..Len(cache) : cache[n].path \in ExistingDirs
       /\ \A k \in Kinds :
            Cardinality({ n \in 1..Len(cache) :
                            cache[n].newOpenItems[1].toolId = Ide[k].tool_id })
              = Cardinality(OccPaths(k))

C5_Witness ==
  /\ pc = "done"
  /\ Len(seen) = 1
  /\ Len(seen[1].entries) = 3
  /\ Cardinality(OccPaths(seen[1].kind)) = 2
  /\ Len(cache) = 2

\* C6: a kind whose root is missing, whose root has no matching folder, or
\* whose matching folders hold no record file raises no error while it is
\* scanned, makes no channel lookup and contributes no project; when every
\* kind has been scanned the only failure left is the missing LOCALAPPDATA,
\* and the cache is written otherwise.
Empty(k) == \A j \in 1..Len(seen) : seen[j].kind = k => seen[j].status = "absent"

C6_EmptyKindIsNoError ==
  /\ \A k \in Kinds :
       (KindIndex(k) <= ki /\ Empty(k)) =>
         /\ calls[k] = 0
         /\ memo[k] = None
         /\ \A p \in Held : ~OfKind(p, k)
         /\ (pc = "failed" /\ ki = KindIndex(k)) => "APPDATA" \notin env
         /\ pc = "done" =>
              \A n \in 1..Len(cache) : cache[n].newOpenItems[1].toolId # Ide[k].tool_id
  /\ (pc = "failed" /\ ki > Len(IdeOrder)) => "LOCALAPPDATA" \notin env
  /\ pc = "done" => writes = 1 /\ cache = Dumps(projects)

C6_Witness ==
  /\ pc = "done"
  /\ cache # <<>>
  /\ "JetBrains" \notin roots
  /\ \E j \in 1..Len(seen) : seen[j].status = "absent"

\* C7: a kind whose tool key matches no tool record never gets a channel id
\* memoized and never has a project built; its first lookup ends the run with
\* the "not found" error, with nothing of that or a later kind in the result
\* list and the cache file not written.
C7_UnregisteredIde ==
  /\ \A k \in Kinds :
       (stateFile.exists /\ ~Registered(k)) =>
         /\ memo[k] = None
         /\ \A p \in Held : ~OfKind(p, k)
         /\ HasValid(k) =>
              /\ pc = "failed"
              /\ ki = KindIndex(k)
              /\ err = IF "LOCALAPPDATA" \in env THEN "RuntimeError" ELSE "EnvironmentError"
  /\ err = "RuntimeError" =>
       /\ pc = "failed"
       /\ stateFile.exists /\ ~Registered(ide)
       /\ calls[ide] = 1
       /\ writes = 0 /\ cache = OldCache
       /\ \A p \in Held : \A k \in Kinds : OfKind(p, k) => KindIndex(k) < ki

C7_Witness ==
  /\ err = "RuntimeError"
  /\ projects # <<>>

\* C8: the cache file is written at most once, only after every kind has been
\* scanned, and only by a run that ends without error: until the run is done,
\* and whenever it has failed, the file holds its previous content.
C8_NoPartialWrite ==
  /\ writes <= 1
  /\ writes = 1 <=> pc = "done"
  /\ writes = 1 => ki > Len(IdeOrder)
  /\ pc # "done" => cache = OldCache
  /\ pc = "failed" =>
       err \in {"EnvironmentError", "FileNotFoundError", "RuntimeError", "ParseError"}

C8_Witness ==
  /\ pc = "failed"
  /\ err = "ParseError"
  /\ projects # <<>>

\* C9: every record in the cache has defaultNewOpenItem equal to the
\* channelId of its first open action, which is the channel id memoized for
\* the kind that contributed it.
C9_DefaultIsFirstItem ==
  /\ \A n \in 1..Len(cache) :
       pc = "done" =>
         /\ cache[n].defaultNewOpenItem = cache[n].newOpenItems[1].channelId
         /\ \E k \in Kinds :
              /\ cache[n].newOpenItems[1].toolId = Ide[k].tool_id
              /\ cache[n].defaultNewOpenItem = memo[k]
  /\ \A p \in Held : p.default_new_open_item = p.new_open_items[1].channel_id

C9_Witness ==
  /\ pc = "done"
  /\ Len(cache) >= 2
  /\ cache[1].defaultNewOpenItem # cache[2].defaultNewOpenItem

\* C10: the written cache lists the kinds in enumeration order and, within a
\* kind, the paths in order of their first occurrence over the folders and
\* their entries; with the names and channels read from the disk this makes
\* the output a function of what the run read.
RECURSIVE ExpectedFrom(_)
ExpectedFrom(i) ==
  IF i > Len(IdeOrder) THEN <<>>
  ELSE LET ps == Firsts(KindOcc(IdeOrder[i]), {})
       IN  [ n \in 1..Len(ps) |-> <<Ide[IdeOrder[i]].tool_id, ps[n]>> ]
             \o ExpectedFrom(i + 1)

C10_OutputOrder ==
  pc = "done" =>
    /\ [ n \in 1..Len(cache) |-> <<cache[n].newOpenItems[1].toolId, cache[n].path>> ]
         = ExpectedFrom(1)
    /\ \A n \in 1..Len(cache) :
         /\ cache[n].name = IF cache[n].path \in DOMAIN NameFiles
                              THEN NameFiles[cache[n].path]
                              ELSE cache[n].path[Len(cache[n].path)]
         /\ \E i \in 1..Len(stateFile.tools) :
              /\ stateFile.tools[i] = Tool(cache[n].newOpenItems[1].toolId,
                                           cache[n].newOpenItems[1].channelId)
              /\ \A j \in 1..(i - 1) :
                   stateFile.tools[j].toolId # cache[n].newOpenItems[1].toolId

C10_Witness ==
  /\ pc = "done"
  /\ \E k \in Kinds :
       LET occ == KindOcc(k)
       IN  /\ Len(occ) = 3
           /\ occ[1].path = occ[3].path
           /\ occ[1].path # occ[2].path

====
